---- MODULE Spec2Model ----
(***************************************************************************)
(* Better Replace-on-Save (src/unnamed/part_002, extension.ts): the rule   *)
(* loader, the resolver, the applier, the change notifier and the two      *)
(* commands, as a state machine over the extension's module state          *)
(* (cachedReplacements, fileWatchers) and its environment (configuration   *)
(* store, file system, active editor, the JavaScript microtask queue).     *)
(*                                                                         *)
(* Texts, patterns and templates are sequences of one-character strings.   *)
(* JavaScript's `undefined` is a sentinel of the type of the field it      *)
(* stands in (NoId, NoStr, NoLangs).                                       *)
(***************************************************************************)
EXTENDS Integers, Sequences, FiniteSets, TLC

VARIABLES
    cfgReplacements,     \* configuration store: betterReplaceOnSave.replacements
    cfgFiles,            \* configuration store: betterReplaceOnSave.replacementsFiles
    files,               \* file system: resolved path -> file content
    pendingFs,           \* file-system notifications the host has not delivered yet:
                         \* pairs << path, late >>, late when the change was made
                         \* during the turn of the event loop still running
    cachedReplacements,  \* module state (line 18)
    fileWatchers,        \* module state (line 19): resolved paths of the watchers held
    hostWatchers,        \* watchers the host holds undisposed, by resolved path
    activated,           \* activate() has run
    tasks,               \* microtask queue: continuations of the loads in flight, FIFO
    draining,            \* the microtask queue is being drained (no event is dispatched)
    rejected,            \* some load promise was rejected (an error escaped the loader)
    done,                \* observation: the handler whose last step just ran
    editor,              \* vscode.window.activeTextEditor: NoEditor or [text, languageId]
    prompt,              \* the open quick pick of applySpecificReplacement, or NoPrompt
    hostQueue,           \* commands of returned code actions the host still has to run
    lastApply,           \* observation: what the last command or provider call did
    notice,              \* observation: the information message just shown
    inputPath,           \* observation: the argument of the last expandVariables call
    expandedPath         \* observation: what that call returned, or NotExpanded

vars == << cfgReplacements, cfgFiles, files, pendingFs, cachedReplacements,
           fileWatchers, hostWatchers, activated, tasks, draining, rejected, done,
           editor, prompt, hostQueue, lastApply, notice, inputPath, expandedPath >>

expanderVars == << inputPath, expandedPath >>

----------------------------------------------------------------------------
(* Bounds of the model *)

MaxTextLen == 2      \* longest document text opened
MaxRules == 2        \* longest rule list drawn as an initial cache
MaxInline == 2       \* longest inline rule list drawn as an initial configuration
MaxElems == 2        \* longest JSON array an external file holds
MaxPathLen == 4      \* longest path, in tokens, handed to expandVariables
MaxLoads == 2        \* loads in flight at once

----------------------------------------------------------------------------
(* Values *)

Chars == {"a", "b"}
Langs == {"py", "js"}
Ids == {"", "p"}

NoId == "<undefined>"          \* r.id === undefined, or no replacementId argument
NoStr == << "<undefined>" >>     \* a missing search or replace property
NoLangs == {"<undefined>"}     \* a missing languages property

SeqsUpTo(S, n) == UNION {[1..k -> S] : k \in 0..n}

\* JSON values an external file can hold as array elements; every value carries
\* the four property slots so that all values are comparable, a non-object has
\* none of them set.
JsonKinds == {"object", "null", "number", "string", "array"}

Elem(kind, id, search, replace, languages) ==
    [kind |-> kind, id |-> id, search |-> search, replace |-> replace,
     languages |-> languages]

Obj(id, search, replace, languages) == Elem("object", id, search, replace, languages)

NonObject(kind) == Elem(kind, NoId, NoStr, NoStr, NoLangs)

\* interface ReplacementConfig
ReplacementConfig ==
    {Obj(id, sr[1], sr[2], l) :
        id \in Ids \cup {NoId},
        sr \in {<< <<"a">>, <<"b">> >>, << <<"b">>, <<"a">> >>},
        l \in {NoLangs, {"py"}}}

----------------------------------------------------------------------------
(* The pattern engine. A pattern is the sequence of its terms: a literal     *)
(* character, a capturing group around a literal, or an assertion (anchor,  *)
(* word boundary, lookbehind, lookahead). A template is the sequence of its *)
(* parts: characters and the reference $1.                                  *)

Caret == "^"                   \* start of input (no m flag)
Dollar == "$"                  \* end of input (no m flag)
WordBoundary == "\\b"
LookBehindA == "(?<=a)"
LookAheadB == "(?=b)"
GroupA == "(a)"
OpenParen == "("               \* an unterminated group: not a pattern
GroupRef == "$1"

Assertions == {Caret, Dollar, WordBoundary, LookBehindA, LookAheadB}

\* new RegExp(replacement.search, 'gd') throws a SyntaxError
SyntaxError(search) ==
    search # NoStr /\ \E k \in 1..Len(search) : search[k] = OpenParen

\* new RegExp(replacement.search, 'gd'): the pattern compiled; new RegExp(undefined)
\* is the empty pattern
RegExpOf(search) == IF search = NoStr THEN <<>> ELSE search

\* the replace argument of String.prototype.replace, converted to a string
TemplateOf(replace) == IF replace = NoStr THEN <<"undefined">> ELSE replace

\* the character a consuming term matches
CharOf(term) == IF term = GroupA THEN "a" ELSE term

\* the number of characters a match of the pattern spans
Width(pat) == Len(SelectSeq(pat, LAMBDA term : term \notin Assertions))

\* \w, at 1-based position k of the text; outside the text there is no character
WordAt(text, k) == k >= 1 /\ k <= Len(text) /\ text[k] \in {"a", "b"}

\* the pattern matches in text at 0-based offset i: every term in turn, an
\* assertion looking at the whole of `text` around the offset reached
RECURSIVE MatchAt(_, _, _)
MatchAt(text, pat, i) ==
    IF pat = <<>> THEN TRUE
    ELSE LET term == Head(pat)
         IN IF term = Caret THEN i = 0 /\ MatchAt(text, Tail(pat), i)
            ELSE IF term = Dollar THEN i = Len(text) /\ MatchAt(text, Tail(pat), i)
            ELSE IF term = WordBoundary
                 THEN WordAt(text, i) # WordAt(text, i + 1) /\ MatchAt(text, Tail(pat), i)
            ELSE IF term = LookBehindA
                 THEN i >= 1 /\ text[i] = "a" /\ MatchAt(text, Tail(pat), i)
            ELSE IF term = LookAheadB
                 THEN i < Len(text) /\ text[i + 1] = "b" /\ MatchAt(text, Tail(pat), i)
            ELSE /\ i < Len(text)
                 /\ text[i + 1] = CharOf(term)
                 /\ MatchAt(text, Tail(pat), i + 1)

\* text.matchAll(searchValue): the start offsets of the matches, scanning left to
\* right; after an empty match lastIndex advances by one
RECURSIVE MatchFrom(_, _, _)
MatchFrom(text, pat, i) ==
    IF i > Len(text) THEN <<>>
    ELSE IF MatchAt(text, pat, i)
         THEN <<i>> \o MatchFrom(text, pat, IF Width(pat) = 0 THEN i + 1 ELSE i + Width(pat))
         ELSE MatchFrom(text, pat, i + 1)

matchAll(text, pat) == MatchFrom(text, pat, 0)

\* the text group 1 captured in the match of pat at offset i of s
Capture(s, pat, i) ==
    LET g == CHOOSE k \in 1..Len(pat) :
                 pat[k] = GroupA /\ \A m \in 1..(k - 1) : pat[m] # GroupA
    IN << s[i + Width(SubSeq(pat, 1, g - 1)) + 1] >>

\* the template with its references substituted for the match of pat at offset i
\* of s; a reference to a group the pattern lacks stands for itself
RECURSIVE Expand(_, _, _, _)
Expand(tpl, s, pat, i) ==
    IF tpl = <<>> THEN <<>>
    ELSE (IF Head(tpl) = GroupRef /\ (\E k \in 1..Len(pat) : pat[k] = GroupA)
          THEN Capture(s, pat, i)
          ELSE << Head(tpl) >>)
         \o Expand(Tail(tpl), s, pat, i)

\* s.replace(searchValue, template) with the global flag
RECURSIVE ReplaceFrom(_, _, _, _)
ReplaceFrom(s, pat, tpl, i) ==
    IF i > Len(s) THEN <<>>
    ELSE IF MatchAt(s, pat, i)
         THEN Expand(tpl, s, pat, i)
              \o (IF Width(pat) = 0
                  THEN (IF i < Len(s) THEN <<s[i + 1]>> ELSE <<>>)
                       \o ReplaceFrom(s, pat, tpl, i + 1)
                  ELSE ReplaceFrom(s, pat, tpl, i + Width(pat)))
         ELSE (IF i < Len(s) THEN <<s[i + 1]>> \o ReplaceFrom(s, pat, tpl, i + 1)
               ELSE <<>>)

stringReplace(s, pat, tpl) == ReplaceFrom(s, pat, tpl, 0)

----------------------------------------------------------------------------
(* Replacement Applier: applyReplacements, lines 336-350 *)

\* lines 340-347 as one edit per rule: the whole document replaced by its global
\* replace, whether or not the pattern matches
ruleEditsWholeDocument(text, replacement) ==
    << [start |-> 0, end |-> Len(text),
        text |-> stringReplace(text, RegExpOf(replacement.search),
                               TemplateOf(replacement.replace))] >>

\* lines 340-347: the edits one rule records against the snapshot `text`
ruleEdits(text, replacement) ==
    LET searchValue == RegExpOf(replacement.search)
        results == matchAll(text, searchValue)
    IN [k \in 1..Len(results) |->
          LET start == results[k]
              end == results[k] + Width(searchValue)
              matchedText == SubSeq(text, start + 1, end)
          IN [start |-> start, end |-> end,
              text |-> stringReplace(matchedText, searchValue,
                                     TemplateOf(replacement.replace))]]

\* lines 339-349 with line 337 moved into the loop: every rule matches the text
\* the edits of the rules before it produce
RECURSIVE recordEditsSequential(_, _)
recordEditsSequential(text, rules) ==
    IF rules = <<>> THEN <<>>
    ELSE LET first == ruleEdits(text, Head(rules))
         IN first \o recordEditsSequential(
                         IF first = <<>> THEN text
                         ELSE stringReplace(text, RegExpOf(Head(rules).search),
                                            TemplateOf(Head(rules).replace)),
                         Tail(rules))

\* lines 339-349: the loop over the applicable rules; every rule matches `text`
RECURSIVE recordEdits(_, _)
recordEdits(text, rules) ==
    IF rules = <<>> THEN <<>>
    ELSE ruleEdits(text, Head(rules)) \o recordEdits(text, Tail(rules))

RECURSIVE Flatten(_)
Flatten(ss) == IF ss = <<>> THEN <<>> ELSE Head(ss) \o Flatten(Tail(ss))

\* the host's TextEditor.edit refuses a batch holding two overlapping ranges
Overlap(e, f) == e.start < f.end /\ f.start < e.end

Overlapping(edits) ==
    \E i, j \in 1..Len(edits) : i # j /\ Overlap(edits[i], edits[j])

\* the host applies a batch of non-overlapping edits to the text they were
\* computed on, all offsets referring to that text
RECURSIVE Build(_, _, _)
Build(text, edits, pos) ==
    LET ins == SelectSeq(edits, LAMBDA e : e.start = pos /\ e.end = pos)
        rep == SelectSeq(edits, LAMBDA e : e.start = pos /\ e.end > pos)
        insText == Flatten([k \in 1..Len(ins) |-> ins[k].text])
    IN insText \o
       (IF rep # <<>> THEN rep[1].text \o Build(text, edits, rep[1].end)
        ELSE IF pos < Len(text) THEN <<text[pos + 1]>> \o Build(text, edits, pos + 1)
        ELSE <<>>)

\* line 340 for every rule of the loop: some new RegExp(...) throws
throws(rules) == \E k \in 1..Len(rules) : SyntaxError(rules[k].search)

\* the host's TextEditor.edit: the batch the callback recorded is applied when no
\* two of its ranges overlap
applyEdit(text, edits) ==
    [edits |-> edits,
     ok |-> ~Overlapping(edits),
     threw |-> FALSE,
     text |-> IF Overlapping(edits) THEN text ELSE Build(text, edits, 0)]

\* lines 336-350 with each rule in a try block of its own: a rule whose pattern
\* does not compile is skipped
editorEditSkipInvalid(text, rules) ==
    applyEdit(text, recordEdits(text, SelectSeq(rules, LAMBDA r : ~SyntaxError(r.search))))

\* line 336, editor.edit(callback): the callback reads the text once (line 337)
\* and records the edits of all rules; the host applies them as one edit when the
\* callback has returned. An exception of the callback leaves editor.edit before
\* anything is applied.
editorEdit(text, rules) ==
    IF throws(rules)
    THEN [edits |-> <<>>, ok |-> FALSE, threw |-> TRUE, text |-> text]
    ELSE applyEdit(text, recordEdits(text, rules))

----------------------------------------------------------------------------
(* Rule Resolver: applyReplacements, lines 315-334 *)

\* a JavaScript string used as a condition: undefined and "" are falsy
Truthy(id) == id # NoId /\ id # ""

\* line 326 without its first case and with the flag ignored: the filter never
\* applies to a request that names an id
languageFilterNeverForId(specificReplacementId, isCodeAction) ==
    ~Truthy(specificReplacementId)

\* line 326
languageFilterApplies(specificReplacementId, isCodeAction) ==
    \/ ~Truthy(specificReplacementId)
    \/ (Truthy(specificReplacementId) /\ isCodeAction)

\* line 328 without `!r.languages ||`
languageAllowsListedOnly(r, languageId) == languageId \in r.languages

\* line 328: !r.languages || r.languages.includes(languageId)
languageAllows(r, languageId) ==
    r.languages = NoLangs \/ languageId \in r.languages

\* line 320 keeping every rule that has an id
idFilterAnyId(replacements, specificReplacementId) ==
    SelectSeq(replacements, LAMBDA r : r.id # NoId)

\* line 320
idFilter(replacements, specificReplacementId) ==
    SelectSeq(replacements, LAMBDA r : r.id = specificReplacementId)

\* line 327
languageFilter(replacements, languageId) ==
    SelectSeq(replacements, LAMBDA r : languageAllows(r, languageId))

\* lines 316-330
applicableReplacements(cache, specificReplacementId, isCodeAction, languageId) ==
    LET byId == IF Truthy(specificReplacementId)
                THEN idFilter(cache, specificReplacementId)
                ELSE cache
    IN IF languageFilterApplies(specificReplacementId, isCodeAction)
       THEN languageFilter(byId, languageId)
       ELSE byId

NoKind == << "<undefined>" >>       \* context.only is undefined

\* the record of a call: of a command (cmd "all" or "specific") with what
\* applyReplacements did, or of the provider (cmd "provide") with the kind filter it
\* got and the actions it returned
NoApply ==
    [cmd |-> "none", via |-> "none", reqId |-> NoId, id |-> NoId,
     isCodeAction |-> FALSE, outcome |-> "none", languageId |-> "none",
     snapshot |-> <<>>, cache |-> <<>>, applicable |-> <<>>, edits |-> <<>>,
     text |-> <<>>, only |-> NoKind, actions |-> <<>>]

\* lines 307-351 without the return of lines 332-334: editor.edit is called
\* whatever the number of applicable rules
applyReplacementsAlwaysEdit(call, ed, specificReplacementId, isCodeAction) ==
    LET applicable == applicableReplacements(cachedReplacements,
                          specificReplacementId, isCodeAction, ed.languageId)
        res == editorEdit(ed.text, applicable)
    IN [call EXCEPT !.id = specificReplacementId,
                    !.isCodeAction = isCodeAction,
                    !.languageId = ed.languageId,
                    !.snapshot = ed.text,
                    !.cache = cachedReplacements,
                    !.applicable = applicable,
                    !.outcome = IF res.threw THEN "threw"
                                ELSE IF res.ok THEN "edited" ELSE "rejected",
                    !.edits = res.edits, !.text = res.text]

\* lines 307-351: what one call does, given the active editor; `call` carries
\* the fields naming the invocation. Outcomes: "noRules", the return of line 333;
\* "edited", editor.edit applied the batch; "rejected", editor.edit refused it;
\* "threw", the callback of editor.edit threw and the call's promise is rejected.
applyReplacements(call, ed, specificReplacementId, isCodeAction) ==
    LET applicable == applicableReplacements(cachedReplacements,
                          specificReplacementId, isCodeAction, ed.languageId)
        res == editorEdit(ed.text, applicable)
        base == [call EXCEPT !.id = specificReplacementId,
                             !.isCodeAction = isCodeAction,
                             !.languageId = ed.languageId,
                             !.snapshot = ed.text,
                             !.cache = cachedReplacements,
                             !.applicable = applicable]
    IN IF Len(applicable) = 0
       THEN [base EXCEPT !.outcome = "noRules", !.text = ed.text]
       ELSE [base EXCEPT !.outcome = IF res.threw THEN "threw"
                                     ELSE IF res.ok THEN "edited" ELSE "rejected",
                         !.edits = res.edits, !.text = res.text]

----------------------------------------------------------------------------
(* Variable Expander: expandVariables, lines 28-52. A path is a sequence of *)
(* tokens: separators "/", names, "~" and the variable tokens.             *)

HomeDir == <<"/", "home">>                       \* os.homedir()
EnvDefined == "${env:V}"                          \* a variable process.env defines
EnvUndefined == "${env:U}"                        \* a variable process.env lacks
EnvTokens == {EnvDefined, EnvUndefined}           \* what envVarRegex matches
UserHome == "${userHome}"                         \* the token of lines 36-37
NotExpanded == << "<not called>" >>
EnvValue == <<"/", "tmp">>                        \* process.env.V
WorkspaceRoot == <<"/", "ws">>                    \* workspaceFolders[0].uri.fsPath

\* path.normalize, as far as separators go: runs of separators collapse
RECURSIVE normalize(_)
normalize(p) ==
    IF Len(p) < 2 THEN p
    ELSE IF p[1] = "/" /\ p[2] = "/" THEN normalize(Tail(p))
    ELSE <<p[1]>> \o normalize(Tail(p))

\* path.join(a, b)
pathJoin(a, b) == normalize(IF b = <<>> THEN a ELSE a \o <<"/">> \o b)

\* a replace without the g flag: the first occurrence only
RECURSIVE substituteFirst(_, _, _)
substituteFirst(p, token, value) ==
    IF p = <<>> THEN <<>>
    ELSE IF Head(p) = token THEN value \o Tail(p)
    ELSE <<Head(p)>> \o substituteFirst(Tail(p), token, value)

\* String.prototype.replace of one token by a value, every occurrence
RECURSIVE substitute(_, _, _)
substitute(p, token, value) ==
    IF p = <<>> THEN <<>>
    ELSE (IF Head(p) = token THEN value ELSE <<Head(p)>>)
         \o substitute(Tail(p), token, value)

\* process.env[varName] for the variable a token names, NoStr when undefined
processEnv(token) == IF token = EnvDefined THEN EnvValue ELSE NoStr

\* a replacer that turns every undefined variable into the empty string
envReplacerBlank(match) ==
    IF processEnv(match) = NoStr THEN <<>> ELSE processEnv(match)

\* lines 42-49: the replacer of the ${env:...} tokens
envReplacer(match) ==
    IF processEnv(match) = NoStr THEN <<match>> ELSE processEnv(match)

\* lines 41-49: expandedPath.replace(envVarRegex, replacer), every occurrence
RECURSIVE substituteEnv(_)
substituteEnv(p) ==
    IF p = <<>> THEN <<>>
    ELSE (IF Head(p) \in EnvTokens THEN envReplacer(Head(p)) ELSE <<Head(p)>>)
         \o substituteEnv(Tail(p))

\* lines 32-33: expandedPath.startsWith('~/')
startsWithTilde(path) == Len(path) >= 2 /\ path[1] = "~" /\ path[2] = "/"

\* both home-directory branches run in one call
expandVariablesBothBranches(path) ==
    LET tilde == IF startsWithTilde(path)
                 THEN pathJoin(HomeDir, SubSeq(path, 3, Len(path)))
                 ELSE path
    IN substituteEnv(substitute(tilde, UserHome, HomeDir))

expandVariables(path) ==
    LET home == IF startsWithTilde(path)
                THEN pathJoin(HomeDir, SubSeq(path, 3, Len(path)))
                ELSE substitute(path, UserHome, HomeDir)
    IN substituteEnv(home)

\* lines 60-68 and 141-147: expansion, then resolution against the workspace root
resolvePath(filePath) ==
    LET resolvedPath == expandVariables(filePath)
    IN IF resolvedPath # <<>> /\ resolvedPath[1] = "/" THEN resolvedPath
       ELSE pathJoin(WorkspaceRoot, resolvedPath)

\* the external files a configuration declares
DeclaredPaths == {<<"f1">>, <<"f2">>}

ResolvedPaths == {resolvePath(p) : p \in DeclaredPaths}

----------------------------------------------------------------------------
(* Rule Loader: loadReplacementsFromFile (57-103), loadAllReplacements (108-126) *)

Content(kind, elems) == [kind |-> kind, elems |-> elems]

Missing == Content("missing", <<>>)       \* fs.existsSync is false
BadJson == Content("badjson", <<>>)       \* JSON.parse throws
NotArray == Content("notarray", <<>>)     \* valid JSON, Array.isArray is false

IsString(v) == v # NoStr

\* typeof replacement === 'object': objects, arrays and null
TypeofObject(e) == e.kind \in {"object", "null", "array"}

Returned(rules) == [threw |-> FALSE, rules |-> rules]
Thrown == [threw |-> TRUE, rules |-> <<>>]

\* lines 87-98: the validation loop; reading a property of null throws
RECURSIVE validateFrom(_, _)
validateFrom(replacements, validReplacements) ==
    IF replacements = <<>> THEN Returned(validReplacements)
    ELSE LET replacement == Head(replacements)
         IN IF TypeofObject(replacement) /\ replacement.kind = "null" THEN Thrown
            ELSE IF /\ TypeofObject(replacement)
                    /\ IsString(replacement.search)
                    /\ IsString(replacement.replace)
                 THEN validateFrom(Tail(replacements),
                                   Append(validReplacements, replacement))
                 ELSE validateFrom(Tail(replacements), validReplacements)

\* lines 59-98: the body of the try block, on the file system `fs`
tryLoad(fs, filePath) ==
    LET content == fs[resolvePath(filePath)]
    IN IF content.kind = "missing" THEN Returned(<<>>)
       ELSE IF content.kind = "badjson" THEN Thrown
       ELSE IF content.kind # "array" THEN Returned(<<>>)
       ELSE validateFrom(content.elems, <<>>)

\* lines 57-103 without the catch of lines 99-102: the exception rejects the promise
loadReplacementsFromFileUncaught(fs, filePath) ==
    LET body == tryLoad(fs, filePath)
    IN [raised |-> body.threw, rules |-> body.rules]

\* lines 57-103: try { ... } catch { return [] }; `raised` tells whether the
\* returned promise is rejected
loadReplacementsFromFile(fs, filePath) ==
    LET body == tryLoad(fs, filePath)
    IN [raised |-> FALSE, rules |-> IF body.threw THEN <<>> ELSE body.rules]

\* line 125
merge(settingsReplacements, fileReplacements) ==
    settingsReplacements \o fileReplacements

\* A call of loadAllReplacements in flight. pc = "loop": suspended at the await of
\* line 120 on file number i, whose promise holds `cur`; pc = "ret": returned
\* (or thrown), the caller's continuation is queued. n: the number of loads that
\* were in flight when the call was made (set by the handler that makes the call).
Load(origin, affectsFiles, pc, settings, rfiles, i, cur, acc, raised) ==
    [origin |-> origin, affectsFiles |-> affectsFiles, pc |-> pc,
     settings |-> settings, rfiles |-> rfiles, i |-> i, cur |-> cur, acc |-> acc,
     raised |-> raised, n |-> 0]

\* the call numbered by the loads in flight before it
triggered(load, inFlight) == [load EXCEPT !.n = inFlight]

\* lines 109-120: the synchronous part of a call, up to the first await, with the
\* values config.get returns
startLoad(origin, affectsFiles, settings, rfiles) ==
    IF rfiles = <<>>
    THEN Load(origin, affectsFiles, "ret", settings, rfiles, 0, <<>>, <<>>, FALSE)
    ELSE LET first == loadReplacementsFromFile(files, rfiles[1])
         IN Load(origin, affectsFiles, "loop", settings, rfiles, 1,
                 first.rules, <<>>, first.raised)

\* lines 120-125: the continuation of the await of line 120
resumeLoad(t) ==
    IF t.raised THEN [t EXCEPT !.pc = "ret"]
    ELSE LET acc == t.acc \o t.cur
         IN IF t.i < Len(t.rfiles)
            THEN LET next == loadReplacementsFromFile(files, t.rfiles[t.i + 1])
                 IN [t EXCEPT !.i = t.i + 1, !.cur = next.rules, !.acc = acc,
                              !.raised = next.raised]
            ELSE [t EXCEPT !.pc = "ret", !.cur = <<>>, !.acc = acc]

\* the inline rules alone: what the files of the same load hold is left out
loadResultInlineOnly(t) == t.settings

\* an incremental patch: what the files hold is added to the rules already cached
loadResultPatched(t) == cachedReplacements \o t.acc

\* the value a returned call resolves to
loadResult(t) == merge(t.settings, t.acc)

\* loadAllReplacements run to completion on one configuration and file system
RECURSIVE loadFiles(_, _)
loadFiles(fs, rfiles) ==
    IF rfiles = <<>> THEN <<>>
    ELSE loadReplacementsFromFile(fs, Head(rfiles)).rules \o loadFiles(fs, Tail(rfiles))

loadAllReplacements(settings, rfiles, fs) == merge(settings, loadFiles(fs, rfiles))

----------------------------------------------------------------------------
(* Change Notifier: setupFileWatchers, lines 131-166 *)

EmptyBag == [p \in ResolvedPaths |-> 0]

RECURSIVE CountIn(_, _)
CountIn(s, x) ==
    IF s = <<>> THEN 0 ELSE (IF Head(s) = x THEN 1 ELSE 0) + CountIn(Tail(s), x)

\* lines 139-147 and 160: the watchers pushed, one per declared file
watchedPaths(rfiles) == [k \in 1..Len(rfiles) |-> resolvePath(rfiles[k])]

\* lines 136-165 without the clean-up of lines 133-134: the watchers held stay
setupFileWatchersKeepOld ==
    LET created == watchedPaths(cfgFiles)
    IN /\ fileWatchers' = fileWatchers \o created
       /\ hostWatchers' = [p \in ResolvedPaths |-> hostWatchers[p] + CountIn(created, p)]

\* lines 133-165: every watcher held is disposed, one is created per declared file
setupFileWatchers ==
    LET created == watchedPaths(cfgFiles)
    IN /\ fileWatchers' = created
       /\ hostWatchers' = [p \in ResolvedPaths |->
              hostWatchers[p] - CountIn(fileWatchers, p) + CountIn(created, p)]

----------------------------------------------------------------------------
(* Code actions: ReplaceOnSaveCodeActionProvider.provideCodeActions, 258-304. *)
(* A CodeActionKind is the sequence of the dot-separated parts of its value. *)

codeActionKind == <<"source", "applyReplacements">>       \* line 264

kindAppend(kind, part) == Append(kind, part)
kindContains(kind, other) ==
    Len(kind) <= Len(other) /\ SubSeq(other, 1, Len(kind)) = kind
kindIntersects(kind, other) == kindContains(kind, other) \/ kindContains(other, kind)

CodeAction(kind, command, replacementId, isCodeAction) ==
    [kind |-> kind, command |-> command, replacementId |-> replacementId,
     isCodeAction |-> isCodeAction]

mainAction == CodeAction(codeActionKind, "applyReplacements", NoId, FALSE)

\* lines 284-301 with the arguments of line 294 lacking the code-action flag
subActionsUnflagged(only) ==
    Flatten([k \in 1..Len(cachedReplacements) |->
        LET replacement == cachedReplacements[k]
            subActionKind == kindAppend(codeActionKind, replacement.id)
        IN IF replacement.id # NoId /\ kindContains(only, subActionKind)
           THEN << CodeAction(subActionKind, "applySpecificReplacement",
                              replacement.id, FALSE) >>
           ELSE <<>>])

\* lines 284-301
subActions(only) ==
    Flatten([k \in 1..Len(cachedReplacements) |->
        LET replacement == cachedReplacements[k]
            subActionKind == kindAppend(codeActionKind, replacement.id)
        IN IF replacement.id # NoId /\ kindContains(only, subActionKind)
           THEN << CodeAction(subActionKind, "applySpecificReplacement",
                              replacement.id, TRUE) >>
           ELSE <<>>])

\* lines 264-303 without the test of line 278
provideCodeActionsMainAlways(only) ==
    IF only = NoKind \/ ~kindIntersects(only, codeActionKind) THEN <<>>
    ELSE <<mainAction>> \o subActions(only)

provideCodeActions(only) ==
    IF only = NoKind \/ ~kindIntersects(only, codeActionKind) THEN <<>>
    ELSE (IF kindContains(only, codeActionKind) THEN <<mainAction>> ELSE <<>>)
         \o subActions(only)

----------------------------------------------------------------------------
(* The commands registered by activate, lines 201-253 *)

NoEditor == [open |-> FALSE, text |-> <<>>, languageId |-> "none"]
Editor(text, languageId) == [open |-> TRUE, text |-> text, languageId |-> languageId]

NoPrompt == [open |-> FALSE, items |-> <<>>, call |-> NoApply]

Call(cmd, via, reqId) == [NoApply EXCEPT !.cmd = cmd, !.via = via, !.reqId = reqId]

\* await applyReplacements(editor, id, isCodeAction): the call and its edit
awaitApply(call, specificReplacementId, isCodeAction) ==
    LET r == applyReplacements(call, editor, specificReplacementId, isCodeAction)
    IN /\ lastApply' = r
       /\ editor' = [editor EXCEPT !.text = r.text]

\* lines 202-210
applyReplacementsCommand(via) ==
    LET call == Call("all", via, NoId)
    IN /\ UNCHANGED prompt
       /\ notice' = "none"
       /\ IF ~editor.open
          THEN lastApply' = [call EXCEPT !.outcome = "noEditor"] /\ UNCHANGED editor
          ELSE awaitApply(call, NoId, TRUE)

\* line 222
replacementsWithIds == SelectSeq(cachedReplacements, LAMBDA r : r.id # NoId)

\* lines 213-252 with the test of the active editor (lines 214-217) made only on
\* the way to applyReplacements, after the handling of a missing id
applySpecificReplacementCommandIdFirst(via, replacementId, isCodeAction) ==
    LET call == Call("specific", via, replacementId)
    IN IF ~Truthy(replacementId)
       THEN IF Len(replacementsWithIds) = 0
            THEN /\ notice' = "noIds"
                 /\ lastApply' = [call EXCEPT !.outcome = "noIds"]
                 /\ UNCHANGED << editor, prompt >>
            ELSE /\ prompt' = [open |-> TRUE,
                               items |-> [k \in 1..Len(replacementsWithIds) |->
                                             replacementsWithIds[k].id],
                               call |-> call]
                 /\ lastApply' = [call EXCEPT !.outcome = "prompt"]
                 /\ notice' = "none"
                 /\ UNCHANGED editor
       ELSE IF ~editor.open
            THEN /\ lastApply' = [call EXCEPT !.outcome = "noEditor"]
                 /\ notice' = "none"
                 /\ UNCHANGED << editor, prompt >>
            ELSE /\ awaitApply(call, replacementId, isCodeAction)
                 /\ notice' = "none"
                 /\ UNCHANGED prompt

\* lines 213-252, up to the await of the quick pick
applySpecificReplacementCommand(via, replacementId, isCodeAction) ==
    LET call == Call("specific", via, replacementId)
    IN IF ~editor.open
       THEN /\ lastApply' = [call EXCEPT !.outcome = "noEditor"]
            /\ notice' = "none"
            /\ UNCHANGED << editor, prompt >>
       ELSE IF ~Truthy(replacementId)
            THEN IF Len(replacementsWithIds) = 0
                 THEN /\ notice' = "noIds"
                      /\ lastApply' = [call EXCEPT !.outcome = "noIds"]
                      /\ UNCHANGED << editor, prompt >>
                 ELSE /\ prompt' = [open |-> TRUE,
                                    items |-> [k \in 1..Len(replacementsWithIds) |->
                                                  replacementsWithIds[k].id],
                                    call |-> call]
                      /\ lastApply' = [call EXCEPT !.outcome = "prompt"]
                      /\ notice' = "none"
                      /\ UNCHANGED editor
            ELSE /\ awaitApply(call, replacementId, isCodeAction)
                 /\ notice' = "none"
                 /\ UNCHANGED prompt

\* lines 240-251: the quick pick resolved with an item
quickPickSelected(k) ==
    /\ prompt' = NoPrompt
    /\ notice' = "none"
    /\ awaitApply(prompt.call, prompt.items[k], FALSE)

\* lines 240-242: the quick pick resolved with undefined
quickPickCanceled ==
    /\ prompt' = NoPrompt
    /\ notice' = "none"
    /\ lastApply' = [prompt.call EXCEPT !.outcome = "cancel"]
    /\ UNCHANGED editor

----------------------------------------------------------------------------
(* Events. Every await of the loader is on a promise that is already         *)
(* settled (the file reads are synchronous), so its continuation is a        *)
(* microtask: once the queue starts draining, it drains to the end before    *)
(* the host dispatches anything else. Messages of the host that arrive       *)
(* together are dispatched back to back in one turn, before the              *)
(* continuations their handlers queued; those then run in FIFO order.        *)
(* activate() is called from the host's activation, a turn of its own.       *)

loaderVars == << cfgReplacements, cfgFiles, files, pendingFs, cachedReplacements,
                 fileWatchers, hostWatchers, activated, tasks, draining, rejected >>
editorVars == << editor, prompt, hostQueue, lastApply, notice >>

Idle == ~draining /\ ~prompt.open
Quiet == lastApply' = NoApply /\ notice' = "none"

\* activate with the inline rules put in the cache at once, before the initial
\* load has resolved
ActivateInlineAtOnce ==
    /\ UNCHANGED expanderVars
    /\ ~draining /\ ~activated
    /\ activated' = TRUE
    /\ tasks' = Append(tasks,
           triggered(startLoad("activate", FALSE, cfgReplacements, cfgFiles), Len(tasks)))
    /\ draining' = TRUE
    /\ cachedReplacements' = cfgReplacements
    /\ setupFileWatchers
    /\ done' = "none"
    /\ Quiet
    /\ UNCHANGED << cfgReplacements, cfgFiles, files, pendingFs,
                    rejected, editor, prompt, hostQueue >>

\* activate, lines 168-190
Activate ==
    /\ UNCHANGED expanderVars
    /\ ~draining /\ ~activated
    /\ activated' = TRUE
    /\ tasks' = Append(tasks,
           triggered(startLoad("activate", FALSE, cfgReplacements, cfgFiles), Len(tasks)))
    /\ draining' = TRUE
    /\ setupFileWatchers
    /\ done' = "none"
    /\ Quiet
    /\ UNCHANGED << cfgReplacements, cfgFiles, files, pendingFs, cachedReplacements,
                    rejected, editor, prompt, hostQueue >>

\* the configuration store is updated and onDidChangeConfiguration fires,
\* lines 179-189, up to the await of line 182
ConfigChange(inlineSet, fileLists) ==
    /\ UNCHANGED expanderVars
    /\ ~draining /\ activated /\ Len(tasks) < MaxLoads
    /\ \E newInline \in inlineSet, newFiles \in fileLists :
          /\ << newInline, newFiles >> # << cfgReplacements, cfgFiles >>
          /\ cfgReplacements' = newInline
          /\ cfgFiles' = newFiles
          /\ tasks' = Append(tasks,
                 triggered(startLoad("config", newFiles # cfgFiles, newInline, newFiles),
                           Len(tasks)))
    /\ done' = "none"
    /\ Quiet
    /\ UNCHANGED << files, pendingFs, cachedReplacements, fileWatchers, hostWatchers,
                    activated, draining, rejected, editor, prompt, hostQueue >>

\* another process creates, rewrites or deletes an external file
FsChange(paths, contents) ==
    /\ UNCHANGED expanderVars
    /\ \E p \in paths, c \in contents :
          /\ files[p] # c
          /\ files' = [files EXCEPT ![p] = c]
          /\ pendingFs' = pendingFs \cup {<< p, tasks # <<>> >>}
    /\ done' = "none"
    /\ Quiet
    /\ UNCHANGED << cfgReplacements, cfgFiles, cachedReplacements, fileWatchers,
                    hostWatchers, activated, tasks, draining, rejected, editor,
                    prompt, hostQueue >>

\* the host delivers the notification of a path: every undisposed watcher of the
\* path calls reloadReplacements, lines 152-158. The notification of a change made
\* during a turn cannot be among the messages that turn is dispatching.
FileEvent ==
    /\ UNCHANGED expanderVars
    /\ ~draining
    /\ \E p \in ResolvedPaths :
          /\ << p, FALSE >> \in pendingFs
          /\ Len(tasks) + hostWatchers[p] <= MaxLoads
          /\ pendingFs' = pendingFs \ {<< p, FALSE >>}
          /\ tasks' = tasks \o
                 [k \in 1..hostWatchers[p] |->
                     triggered(startLoad("watch", FALSE, cfgReplacements, cfgFiles),
                               Len(tasks) + k - 1)]
    /\ done' = "none"
    /\ Quiet
    /\ UNCHANGED << cfgReplacements, cfgFiles, files, cachedReplacements, fileWatchers,
                    hostWatchers, activated, draining, rejected, editor, prompt,
                    hostQueue >>

\* the turn has ended: the notifications of the changes made during it can arrive
delivered(pending) == {<< e[1], FALSE >> : e \in pending}

\* one microtask: the continuation at the head of the queue runs to its next await.
\* A returned load resumes its caller: lines 171, 153 and 182-187.
Microtask ==
    /\ UNCHANGED expanderVars
    /\ tasks # <<>>
    /\ LET t == Head(tasks)
       IN IF t.pc = "loop"
          THEN /\ tasks' = Append(Tail(tasks), resumeLoad(t))
               /\ draining' = TRUE
               /\ done' = "none"
               /\ UNCHANGED << cachedReplacements, fileWatchers, hostWatchers, rejected >>
          ELSE /\ tasks' = Tail(tasks)
               /\ draining' = (Tail(tasks) # <<>>)
               /\ done' = t.origin
               /\ IF t.raised
                  THEN /\ rejected' = TRUE
                       /\ UNCHANGED << cachedReplacements, fileWatchers, hostWatchers >>
                  ELSE /\ cachedReplacements' = loadResult(t)
                       /\ rejected' = rejected
                       /\ IF t.origin = "config" /\ t.affectsFiles
                          THEN setupFileWatchers
                          ELSE UNCHANGED << fileWatchers, hostWatchers >>
    /\ pendingFs' = IF tasks' = <<>> THEN delivered(pendingFs) ELSE pendingFs
    /\ Quiet
    /\ UNCHANGED << cfgReplacements, cfgFiles, files, activated, editor,
                    prompt, hostQueue >>

\* a document is shown in the active editor; showing another document while one is
\* active reaches the states CloseEditors followed by this action reaches
OpenDocument(texts) ==
    /\ UNCHANGED expanderVars
    /\ Idle /\ hostQueue = <<>> /\ ~editor.open
    /\ \E text \in texts, languageId \in Langs :
          editor' = Editor(text, languageId)
    /\ done' = "none"
    /\ Quiet
    /\ UNCHANGED << prompt, hostQueue >>
    /\ UNCHANGED loaderVars

\* workbench.action.closeAllEditors
CloseEditors ==
    /\ UNCHANGED expanderVars
    /\ Idle /\ hostQueue = <<>> /\ editor.open
    /\ editor' = NoEditor
    /\ done' = "none"
    /\ Quiet
    /\ UNCHANGED << prompt, hostQueue >>
    /\ UNCHANGED loaderVars

\* the broadcast command is executed directly (command palette, executeCommand)
ExecuteApplyReplacements ==
    /\ UNCHANGED expanderVars
    /\ Idle /\ activated /\ hostQueue = <<>>
    /\ applyReplacementsCommand("direct")
    /\ done' = "none"
    /\ UNCHANGED hostQueue
    /\ UNCHANGED loaderVars

\* the specific command is executed directly, with or without arguments
ExecuteApplySpecificReplacement ==
    /\ UNCHANGED expanderVars
    /\ Idle /\ activated /\ hostQueue = <<>>
    /\ \E replacementId \in Ids \cup {NoId}, isCodeAction \in BOOLEAN :
          applySpecificReplacementCommand("direct", replacementId, isCodeAction)
    /\ done' = "none"
    /\ UNCHANGED hostQueue
    /\ UNCHANGED loaderVars

\* the user picks an item of the open quick pick
QuickPickSelect ==
    /\ UNCHANGED expanderVars
    /\ ~draining /\ prompt.open
    /\ \E k \in 1..Len(prompt.items) : quickPickSelected(k)
    /\ done' = "none"
    /\ UNCHANGED hostQueue
    /\ UNCHANGED loaderVars

\* the user dismisses the open quick pick
QuickPickCancel ==
    /\ UNCHANGED expanderVars
    /\ ~draining /\ prompt.open
    /\ quickPickCanceled
    /\ done' = "none"
    /\ UNCHANGED hostQueue
    /\ UNCHANGED loaderVars

\* the kinds editor.codeActionsOnSave can name
OnlyKinds ==
    {NoKind, <<"source">>, <<"source", "organizeImports">>, codeActionKind}
    \cup {kindAppend(codeActionKind, id) : id \in Ids}

\* on save the host asks the provider for the actions of one configured kind
CodeActionRequest ==
    /\ UNCHANGED expanderVars
    /\ Idle /\ activated /\ hostQueue = <<>> /\ editor.open
    /\ \E only \in OnlyKinds :
          /\ hostQueue' = provideCodeActions(only)
          /\ lastApply' = [NoApply EXCEPT !.cmd = "provide", !.only = only,
                                          !.actions = provideCodeActions(only),
                                          !.cache = cachedReplacements]
    /\ done' = "none"
    /\ notice' = "none"
    /\ UNCHANGED << editor, prompt >>
    /\ UNCHANGED loaderVars

\* the host runs the command of the next returned action
RunCodeAction ==
    /\ UNCHANGED expanderVars
    /\ Idle /\ hostQueue # <<>>
    /\ LET action == Head(hostQueue)
       IN IF action.command = "applyReplacements"
          THEN applyReplacementsCommand("codeAction")
          ELSE applySpecificReplacementCommand("codeAction", action.replacementId,
                                               action.isCodeAction)
    /\ hostQueue' = Tail(hostQueue)
    /\ done' = "none"
    /\ UNCHANGED loaderVars

----------------------------------------------------------------------------
(* Specifications *)

InitEnvironment ==
    /\ pendingFs = {}
    /\ fileWatchers = <<>>
    /\ hostWatchers = EmptyBag
    /\ tasks = <<>>
    /\ draining = FALSE
    /\ rejected = FALSE
    /\ done = "none"
    /\ prompt = NoPrompt
    /\ hostQueue = <<>>
    /\ lastApply = NoApply
    /\ notice = "none"
    /\ inputPath = <<>>
    /\ expandedPath = NotExpanded

F1 == <<"f1">>
F2 == <<"f2">>

RuleP == Obj("p", <<"a">>, <<"b">>, {"py"})
RuleQ == Obj(NoId, <<"b">>, <<"a">>, NoLangs)
RuleNoSearch == Obj(NoId, NoStr, <<"b">>, NoLangs)
RuleNoReplace == Obj(NoId, <<"a">>, NoStr, NoLangs)

(* Spec: the extension from activation on, with configuration changes, changes *)
(* of the external file f1 (f2 never exists), file events, the loads in flight *)
(* and the broadcast command on one document.                                  *)

InlineLists == {<<>>, <<RuleP>>, <<RuleNoReplace>>}
FileLists == {<<>>, <<F1>>, <<F1, F2>>}
FileContents == {Missing, Content("array", <<RuleQ>>)}

Init ==
    /\ cfgReplacements \in InlineLists
    /\ cfgFiles \in FileLists
    /\ files \in {[p \in ResolvedPaths |-> IF p = resolvePath(F1) THEN c ELSE Missing] :
                     c \in FileContents}
    /\ cachedReplacements = <<>>
    /\ activated = FALSE
    /\ editor = Editor(<<"a">>, "py")
    /\ InitEnvironment

Next ==
    \/ Activate
    \/ ConfigChange(InlineLists, FileLists)
    \/ FsChange({resolvePath(F1)}, FileContents)
    \/ FileEvent
    \/ Microtask
    \/ ExecuteApplyReplacements

Spec == Init /\ [][Next]_vars

(* SpecWatch: the loader and the change notifier alone, from the same initial *)
(* states as Spec: no command runs.                                          *)

NextWatch ==
    \/ Activate
    \/ ConfigChange(InlineLists, FileLists)
    \/ FsChange({resolvePath(F1)}, FileContents)
    \/ FileEvent
    \/ Microtask

SpecWatch == Init /\ [][NextWatch]_vars

(* SpecRead: the loader and the change notifier of SpecWatch with a reader, the *)
(* broadcast command on an empty document, which resolves the cached rules and  *)
(* changes nothing.                                                             *)

ReadInlineLists == {<<>>, <<RuleP>>}

InitRead ==
    /\ cfgReplacements \in ReadInlineLists
    /\ cfgFiles \in FileLists
    /\ files \in {[p \in ResolvedPaths |-> IF p = resolvePath(F1) THEN c ELSE Missing] :
                     c \in FileContents}
    /\ cachedReplacements = <<>>
    /\ activated = FALSE
    /\ editor = Editor(<<>>, "py")
    /\ InitEnvironment

NextRead ==
    \/ Activate
    \/ ConfigChange(ReadInlineLists, FileLists)
    \/ FsChange({resolvePath(F1)}, FileContents)
    \/ FileEvent
    \/ Microtask
    \/ ExecuteApplyReplacements

SpecRead == InitRead /\ [][NextRead]_vars

(* SpecLoad: one activation, its initial load and the broadcast command, on *)
(* every configuration and file system of the bounded sets.                *)

JsonElems ==
    {RuleP, RuleQ, RuleNoSearch, RuleNoReplace} \cup
    {NonObject(k) : k \in {"null", "number", "string", "array"}}

JsonFiles ==
    {Missing, BadJson, NotArray} \cup
    {Content("array", elems) : elems \in SeqsUpTo(JsonElems, MaxElems)}

OtherFiles == {Missing, BadJson, NotArray, Content("array", <<RuleQ>>)}

InitLoad ==
    /\ cfgReplacements \in SeqsUpTo({RuleP, RuleNoReplace}, MaxInline)
    /\ cfgFiles \in SeqsUpTo(DeclaredPaths, 2)
    /\ files \in {[p \in ResolvedPaths |-> IF p = resolvePath(F1) THEN c ELSE d] :
                     c \in JsonFiles, d \in OtherFiles}
    /\ cachedReplacements = <<>>
    /\ activated = FALSE
    /\ editor = Editor(<<"a", "b">>, "py")
    /\ InitEnvironment

NextLoad ==
    \/ Activate
    \/ Microtask
    \/ ExecuteApplyReplacements

SpecLoad == InitLoad /\ [][NextLoad]_vars

(* SpecResolve: the commands and the code actions on every cached rule list and *)
(* document of the bounded sets; the cache is the one an activation with the    *)
(* same inline rules and no external file leaves.                               *)

Texts == SeqsUpTo(Chars, MaxTextLen)

\* the rules the cached lists are drawn from: for each id value (an id, the empty
\* id, no id) one rule restricted to a language and one unrestricted, of opposite
\* patterns
CachedRules ==
    {r \in ReplacementConfig :
        \/ r.id = "p" /\ (r.search = <<"a">> <=> r.languages # NoLangs)
        \/ r.id = NoId /\ (r.search = <<"a">> <=> r.languages = NoLangs)
        \/ r.id = "" /\ (r.search = <<"a">> <=> r.languages # NoLangs)}

InitResolve ==
    /\ cachedReplacements \in SeqsUpTo(CachedRules, MaxRules)
    /\ cfgReplacements = cachedReplacements
    /\ cfgFiles = <<>>
    /\ files = [p \in ResolvedPaths |-> Missing]
    /\ activated = TRUE
    /\ editor = NoEditor
    /\ InitEnvironment

NextResolve ==
    \/ OpenDocument(Texts)
    \/ CloseEditors
    \/ ExecuteApplyReplacements
    \/ ExecuteApplySpecificReplacement
    \/ QuickPickSelect
    \/ QuickPickCancel
    \/ CodeActionRequest
    \/ RunCodeAction

SpecResolve == InitResolve /\ [][NextResolve]_vars

(* SpecApply: the two commands on documents and cached rule lists whose        *)
(* patterns use groups, anchors, word boundaries and lookaround, or do not      *)
(* compile. Rules that insert or lengthen make documents grow with every       *)
(* application: a document longer than twice the longest one opened is left    *)
(* alone.                                                                       *)

ApplyRules ==
    { Obj(NoId, <<"a">>, <<"b", "b">>, NoLangs),
      Obj("p", <<"b">>, <<"a">>, {"py"}),
      Obj(NoId, <<LookBehindA, "b">>, <<"a">>, NoLangs),
      Obj(NoId, <<"a", LookAheadB>>, <<"b">>, NoLangs),
      Obj(NoId, <<GroupA, "b">>, <<"b", GroupRef>>, NoLangs),
      Obj(NoId, <<Caret>>, <<"b">>, NoLangs),
      Obj(NoId, <<Dollar>>, <<"a">>, NoLangs),
      Obj(NoId, <<WordBoundary>>, <<"a">>, NoLangs),
      Obj(NoId, <<OpenParen>>, <<"a">>, NoLangs) }

InitApply ==
    /\ cachedReplacements \in SeqsUpTo(ApplyRules, MaxRules)
    /\ cfgReplacements = cachedReplacements
    /\ cfgFiles = <<>>
    /\ files = [p \in ResolvedPaths |-> Missing]
    /\ activated = TRUE
    /\ editor = NoEditor
    /\ InitEnvironment

WithinBound == Len(editor.text) <= 2 * MaxTextLen

ApplyAllWithinBound == WithinBound /\ ExecuteApplyReplacements

ApplySpecificWithinBound == WithinBound /\ ExecuteApplySpecificReplacement

NextApply ==
    \/ OpenDocument(Texts)
    \/ CloseEditors
    \/ ApplyAllWithinBound
    \/ ApplySpecificWithinBound
    \/ QuickPickSelect
    \/ QuickPickCancel

SpecApply == InitApply /\ [][NextApply]_vars

----------------------------------------------------------------------------
(* SpecExpand: expandVariables called on every path of the bounded set. A path *)
(* is the sequence of its parts: separators, the tilde, the variable tokens    *)
(* and a plain name.                                                           *)

PathTokens == {"~", "/", UserHome, EnvDefined, EnvUndefined, "x"}
InputPaths == SeqsUpTo(PathTokens, MaxPathLen)

\* a caller evaluates expandVariables(filePath), lines 60 and 141
CallExpandVariables ==
    /\ expandedPath = NotExpanded
    /\ expandedPath' = expandVariables(inputPath)
    /\ UNCHANGED << inputPath, prompt, hostQueue, lastApply, notice, editor, done >>
    /\ UNCHANGED loaderVars

InitExpand ==
    /\ cfgReplacements = <<>>
    /\ cfgFiles = <<>>
    /\ files = [p \in ResolvedPaths |-> Missing]
    /\ cachedReplacements = <<>>
    /\ activated = FALSE
    /\ editor = NoEditor
    /\ pendingFs = {}
    /\ fileWatchers = <<>>
    /\ hostWatchers = EmptyBag
    /\ tasks = <<>>
    /\ draining = FALSE
    /\ rejected = FALSE
    /\ done = "none"
    /\ prompt = NoPrompt
    /\ hostQueue = <<>>
    /\ lastApply = NoApply
    /\ notice = "none"
    /\ inputPath \in InputPaths
    /\ expandedPath = NotExpanded

NextExpand == CallExpandVariables

SpecExpand == InitExpand /\ [][NextExpand]_vars

----------------------------------------------------------------------------
(* Claims on the resolver and the applier, checked under SpecResolve *)

\* the last command reached applyReplacements
Resolved == lastApply.outcome \in {"noRules", "edited", "rejected"}

\* the rule at some position of a sequence
InSeq(r, rules) == \E k \in 1..Len(rules) : rules[k] = r

\* an id was requested: the argument is a non-empty string (line 319)
IdRequested == Truthy(lastApply.id)

\* C1 (contract). Whenever applyReplacements runs: when an id is requested and the
\* invocation is not a code action the language filter is skipped, that is, the
\* rules resolved are all the cached rules with that id whatever their languages;
\* in every other combination (no id requested, or an id requested by a code
\* action) the filter is applied, that is, no resolved rule restricts itself to
\* languages other than the document's and every permitted candidate is resolved.
\* The broadcast command always runs without an id and filtered.
C1_LanguageFilterDecision ==
    Resolved =>
        LET L == lastApply
            candidates == IF IdRequested
                          THEN SelectSeq(L.cache, LAMBDA r : r.id = L.id)
                          ELSE L.cache
            permitted == SelectSeq(candidates, LAMBDA r :
                             r.languages = NoLangs \/ L.languageId \in r.languages)
        IN /\ (IdRequested /\ ~L.isCodeAction) => L.applicable = candidates
           /\ (~IdRequested \/ L.isCodeAction) => L.applicable = permitted
           /\ L.cmd = "all" => (~IdRequested /\ L.applicable = permitted)

\* C1 witness: a direct request by id resolved a rule whose languages exclude the
\* document's language
C1_Witness ==
    /\ Resolved /\ IdRequested /\ ~lastApply.isCodeAction
    /\ \E k \in 1..Len(lastApply.applicable) :
          /\ lastApply.applicable[k].languages # NoLangs
          /\ lastApply.languageId \notin lastApply.applicable[k].languages

\* the text a global replace of one rule over the whole text produces
ReplacedBy(text, r) == stringReplace(text, RegExpOf(r.search), TemplateOf(r.replace))

\* C2 (contract). For a rule with a (non-empty) id and a languages list: the specific
\* command executed directly with that id resolves the rule whatever the document's
\* language, and the document becomes the text with the rule's matches replaced when
\* it is the only rule resolved; executed as the command of the code action the
\* provider returned for that id, the rule is resolved exactly when the document's
\* language is in its list, and when no rule of that id permits the language the
\* document is unchanged.
C2_LanguageByInvocationMode ==
    (Resolved /\ lastApply.cmd = "specific" /\ Truthy(lastApply.reqId)) =>
        LET L == lastApply
            mine == {k \in 1..Len(L.cache) :
                        L.cache[k].id = L.reqId /\ L.cache[k].languages # NoLangs}
        IN /\ \A k \in mine :
                /\ (L.via = "direct" /\ ~L.isCodeAction) => InSeq(L.cache[k], L.applicable)
                /\ L.via = "codeAction" =>
                       (InSeq(L.cache[k], L.applicable)
                            <=> L.languageId \in L.cache[k].languages)
           /\ (L.via = "codeAction"
                 /\ \A k \in 1..Len(L.cache) :
                       L.cache[k].id = L.reqId =>
                           (k \in mine /\ L.languageId \notin L.cache[k].languages))
              => (L.outcome = "noRules" /\ editor.text = L.snapshot)
           /\ Len(L.applicable) = 1 => editor.text = ReplacedBy(L.snapshot, L.applicable[1])

\* C2 witness: the code action of an id ran on a document the rule of that id
\* matches but whose language its list excludes, and the text is unchanged
C2_Witness ==
    /\ Resolved /\ lastApply.cmd = "specific" /\ lastApply.via = "codeAction"
    /\ \E k \in 1..Len(lastApply.cache) :
          /\ lastApply.cache[k].id = lastApply.reqId
          /\ lastApply.cache[k].languages # NoLangs
          /\ lastApply.languageId \notin lastApply.cache[k].languages
          /\ matchAll(lastApply.snapshot, RegExpOf(lastApply.cache[k].search)) # <<>>
    /\ editor.text = lastApply.snapshot

\* the language filter applied to the last call
Filtered == ~IdRequested \/ lastApply.isCodeAction

\* the edit is one some rule of `rules` records on the snapshot
EditOf(e, snapshot, rules) ==
    \E k \in 1..Len(rules) :
        /\ SubSeq(snapshot, e.start + 1, e.end) = RegExpOf(rules[k].search)
        /\ e.text = TemplateOf(rules[k].replace)

\* C3 (contract). Whenever the language filter applies, a candidate rule is resolved
\* if and only if it has no languages property or its languages hold the document's
\* language identifier, and every recorded edit replaces a match of a permitted rule.
C3_LanguageFilterKeeps ==
    (Resolved /\ Filtered) =>
        LET L == lastApply
            permits(r) == r.languages = NoLangs \/ L.languageId \in r.languages
        IN /\ \A k \in 1..Len(L.cache) :
                (~IdRequested \/ L.cache[k].id = L.id) =>
                    (InSeq(L.cache[k], L.applicable) <=> permits(L.cache[k]))
           /\ \A k \in 1..Len(L.edits) :
                EditOf(L.edits[k], L.snapshot, SelectSeq(L.cache, permits))

\* C3 witness: a filtered call kept an unrestricted rule and excluded a rule whose
\* pattern matches the document
C3_Witness ==
    /\ Resolved /\ Filtered /\ lastApply.outcome = "edited"
    /\ \E k \in 1..Len(lastApply.applicable) : lastApply.applicable[k].languages = NoLangs
    /\ \E k \in 1..Len(lastApply.cache) :
          /\ ~InSeq(lastApply.cache[k], lastApply.applicable)
          /\ lastApply.cache[k].languages # NoLangs
          /\ matchAll(lastApply.snapshot, RegExpOf(lastApply.cache[k].search)) # <<>>

\* C4 as stated (contract). Whenever a (non-empty) id is requested, the resolved
\* sequence has at most one element and that element has the requested id.
C4_SingleRuleResolved ==
    (Resolved /\ IdRequested) =>
        /\ Len(lastApply.applicable) <= 1
        /\ \A k \in 1..Len(lastApply.applicable) :
              lastApply.applicable[k].id = lastApply.id

\* C4 amended. Whenever a non-empty id is requested, the resolved sequence holds, in
\* list order, exactly the cached rules of that id (those the document's language
\* permits when the invocation is a code action): one rule at most when the id is
\* unique in the list; every recorded edit replaces a match of a rule of that id;
\* a single resolved rule leaves the text its global replace produces; and when no
\* rule has the id nothing is resolved and the text is unchanged.
C4_RulesOfRequestedId ==
    (Resolved /\ IdRequested) =>
        LET L == lastApply
            sameId == SelectSeq(L.cache, LAMBDA r : r.id = L.id)
        IN /\ L.applicable =
                 SelectSeq(L.cache, LAMBDA r :
                     /\ r.id = L.id
                     /\ (L.isCodeAction =>
                            (r.languages = NoLangs \/ L.languageId \in r.languages)))
           /\ Cardinality({k \in 1..Len(L.cache) : L.cache[k].id = L.id}) <= 1
                 => Len(L.applicable) <= 1
           /\ \A k \in 1..Len(L.edits) : EditOf(L.edits[k], L.snapshot, sameId)
           /\ Len(L.applicable) = 1 => editor.text = ReplacedBy(L.snapshot, L.applicable[1])
           /\ sameId = <<>> => (L.outcome = "noRules" /\ editor.text = L.snapshot)

\* C4 witness: the rule of the requested id was applied while a rule of another id
\* matches the text that is left
C4_Witness ==
    /\ Resolved /\ IdRequested /\ lastApply.outcome = "edited"
    /\ Len(lastApply.applicable) = 1
    /\ editor.text # lastApply.snapshot
    /\ \E k \in 1..Len(lastApply.cache) :
          /\ lastApply.cache[k].id # lastApply.id
          /\ matchAll(lastApply.snapshot, RegExpOf(lastApply.cache[k].search)) # <<>>
          /\ matchAll(editor.text, RegExpOf(lastApply.cache[k].search)) # <<>>

----------------------------------------------------------------------------
(* Claims on the loader, checked under SpecLoad *)

\* a rule as the data model defines it: an object with a string search and a
\* string replace
ValidRule(e) == e.kind = "object" /\ e.search # NoStr /\ e.replace # NoStr

\* the valid rules a file holds, in file order; a file that is missing, is not JSON
\* or is not an array holds none
ValidRulesOf(content) ==
    IF content.kind = "array" THEN SelectSeq(content.elems, ValidRule) ELSE <<>>

FileOf(filePath) == files[resolvePath(filePath)]

\* the initial load has completed (SpecLoad starts no other load and changes no file)
InitialLoadDone == activated /\ tasks = <<>>

\* C6 (contract). Once the initial load has completed, the cache is the inline rules
\* in their configured order followed by the valid rules of each declared file, in
\* declaration order, each file's rules in file order.
C6_MergedInDeclarationOrder ==
    InitialLoadDone =>
        cachedReplacements =
            cfgReplacements \o
            Flatten([k \in 1..Len(cfgFiles) |-> ValidRulesOf(FileOf(cfgFiles[k]))])

Degraded(content) == content.kind \in {"missing", "badjson", "notarray"}

\* C7 (contract). No load promise is ever rejected; once the initial load has
\* completed, the cache is the inline rules followed by what the declared files
\* contribute in order, a file that is missing, is not valid JSON or is not an array
\* contributing nothing; and a broadcast command run while no inline rule is
\* configured and every declared file is such a file leaves the text unchanged.
C7_LoadingNeverRaises ==
    /\ ~rejected
    /\ \A k \in 1..Len(tasks) : ~tasks[k].raised
    /\ InitialLoadDone =>
          cachedReplacements =
              cfgReplacements \o
              Flatten([k \in 1..Len(cfgFiles) |->
                  IF Degraded(FileOf(cfgFiles[k])) THEN <<>>
                  ELSE loadReplacementsFromFile(files, cfgFiles[k]).rules])
    /\ (/\ lastApply.cmd = "all"
        /\ cfgReplacements = <<>>
        /\ cfgFiles # <<>>
        /\ \A k \in 1..Len(cfgFiles) : Degraded(FileOf(cfgFiles[k])))
       => (lastApply.outcome = "noRules" /\ editor.text = <<"a", "b">>)

\* C7 witness: the load completed with an inline rule and the rule of the second
\* file although the first file is not valid JSON
C7_Witness ==
    /\ InitialLoadDone /\ done = "activate"
    /\ cfgFiles = <<F1, F2>>
    /\ FileOf(F1) = BadJson
    /\ FileOf(F2) = Content("array", <<RuleQ>>)
    /\ cfgReplacements # <<>>
    /\ cachedReplacements = cfgReplacements \o <<RuleQ>>

\* C8 (contract). Once the initial load of a configuration declaring one file that
\* holds a JSON array has completed, the cache holds, after the inline rules, every
\* valid element of the array in order: invalid elements are dropped one by one.
C8_InvalidElementsDroppedIndividually ==
    (InitialLoadDone /\ Len(cfgFiles) = 1 /\ FileOf(cfgFiles[1]).kind = "array") =>
        cachedReplacements =
            cfgReplacements \o SelectSeq(FileOf(cfgFiles[1]).elems, ValidRule)

----------------------------------------------------------------------------
(* Claims on the cache, checked under Spec *)

\* C9 (contract). Every rule of the cache, and every rule handed to the applier, has
\* a string search and a string replace.
C9_CachedRulesAreValid ==
    /\ \A k \in 1..Len(cachedReplacements) :
          IsString(cachedReplacements[k].search) /\ IsString(cachedReplacements[k].replace)
    /\ \A k \in 1..Len(lastApply.applicable) :
          IsString(lastApply.applicable[k].search) /\ IsString(lastApply.applicable[k].replace)

\* C10 (contract). When the handler of the activation or of a configuration change
\* has completed, no other handler is still running and no file notification is
\* outstanding, the cache equals loadAllReplacements evaluated on the current
\* configuration and file contents.
C10_CacheCurrentAfterHandler ==
    (done \in {"activate", "config"} /\ tasks = <<>> /\ pendingFs = {}) =>
        cachedReplacements = loadAllReplacements(cfgReplacements, cfgFiles, files)

----------------------------------------------------------------------------
(* Claims on the change notifier, checked under SpecWatch *)

\* some handler of a configuration change has not completed yet
ConfigHandlerRunning == \E k \in 1..Len(tasks) : tasks[k].origin = "config"

\* the notification of path p is delivered in this step
Notified(p) == << p, FALSE >> \in pendingFs /\ << p, FALSE >> \notin pendingFs'

\* the load at the head of the queue was started by a watcher and returns in this step
WatchLoadReturns ==
    /\ tasks # <<>> /\ tasks' = Tail(tasks)
    /\ Head(tasks).origin = "watch" /\ Head(tasks).pc = "ret"

\* C11 (contract). In every step: while no configuration handler is running, every
\* declared file has a watcher on its resolved path; the notification of a watched
\* path starts a loadAllReplacements on the whole current configuration; when such a
\* load returns, the cache becomes its whole result, the inline rules followed by
\* what each of the declared files held when it was read; and once the load of a
\* watcher has completed with no notification outstanding while the file is deleted,
\* the cache holds no rule of that file.
C11_FileEventReloadsWholeCache ==
    [][ /\ (activated /\ ~ConfigHandlerRunning) =>
              \A k \in 1..Len(cfgFiles) : hostWatchers[resolvePath(cfgFiles[k])] >= 1
        /\ \A p \in ResolvedPaths :
              (Notified(p) /\ hostWatchers[p] >= 1) =>
                  /\ Len(tasks') = Len(tasks) + hostWatchers[p]
                  /\ LET t == tasks'[Len(tasks')]
                     IN /\ t.origin = "watch"
                        /\ t.settings = cfgReplacements /\ t.rfiles = cfgFiles
        /\ WatchLoadReturns =>
              LET t == Head(tasks)
              IN /\ t.i = Len(t.rfiles)
                 /\ cachedReplacements' = t.settings \o t.acc
                 /\ Len(t.rfiles) = 0 => t.acc = <<>>
        /\ (done' = "watch" /\ pendingFs' = {} /\ FileOf(F1)' = Missing) =>
              ~InSeq(RuleQ, cachedReplacements')
      ]_vars

\* C11 witness: the file was deleted while the cache held its rule, the watcher's
\* load has completed and the cache holds the inline rule alone
C11_Witness ==
    /\ done = "watch" /\ tasks = <<>> /\ pendingFs = {}
    /\ cfgFiles = <<F1>> /\ FileOf(F1) = Missing
    /\ cfgReplacements = <<RuleP>>
    /\ cachedReplacements = <<RuleP>>

----------------------------------------------------------------------------
(* Claims on the variable expander, checked under SpecExpand *)

\* expandVariables has been called on inputPath
Expanded == expandedPath # NotExpanded

\* the first tokens of path are those of prefix
IsPrefix(prefix, path) ==
    Len(prefix) <= Len(path) /\ SubSeq(path, 1, Len(prefix)) = prefix

\* C12 (contract). For every path: when it starts with ~/ the result starts with the
\* home directory, which occurs in it once, and holds as many ${userHome} tokens as
\* the path; otherwise no ${userHome} token is left and the home directory occurs
\* once per token; in both cases no defined ${env:NAME} token is left and its value
\* occurs once per token.
C12_OneHomeBranch ==
    Expanded =>
        /\ startsWithTilde(inputPath) =>
              /\ IsPrefix(HomeDir, expandedPath)
              /\ CountIn(expandedPath, "home") = 1
              /\ CountIn(expandedPath, UserHome) = CountIn(inputPath, UserHome)
        /\ ~startsWithTilde(inputPath) =>
              /\ CountIn(expandedPath, UserHome) = 0
              /\ CountIn(expandedPath, "home") = CountIn(inputPath, UserHome)
        /\ CountIn(expandedPath, EnvDefined) = 0
        /\ CountIn(expandedPath, "tmp") = CountIn(inputPath, EnvDefined)

\* C12 witness: ~/${userHome}${env:V} keeps its ${userHome} token and has its
\* variable expanded
C12_Witness ==
    /\ inputPath = << "~", "/", UserHome, EnvDefined >>
    /\ expandedPath = << "/", "home", "/", UserHome, "/", "tmp" >>

\* what a token stands for: its value when it has one, itself otherwise
ValueOf(token) ==
    IF token = UserHome THEN HomeDir
    ELSE IF token = EnvDefined THEN EnvValue
    ELSE << token >>

\* C13 (contract). For every path that does not start with ~/, the result is the path
\* with every ${userHome} token replaced by the home directory and every defined
\* ${env:NAME} token by its value, everything else in place: no token with a value
\* is left, whatever their number and order.
C13_EveryTokenExpanded ==
    (Expanded /\ ~startsWithTilde(inputPath)) =>
        /\ expandedPath = Flatten([k \in 1..Len(inputPath) |-> ValueOf(inputPath[k])])
        /\ CountIn(expandedPath, UserHome) = 0
        /\ CountIn(expandedPath, EnvDefined) = 0

\* C13 witness: two ${userHome} tokens around a defined variable are all expanded
C13_Witness ==
    /\ inputPath = << UserHome, EnvDefined, "/", UserHome >>
    /\ expandedPath = << "/", "home", "/", "tmp", "/", "/", "home" >>

\* C14 (contract). For every path, the ${env:NAME} tokens of an undefined variable
\* are in the result as many times as in the path, the tokens with a value are
\* expanded all the same, and a path that does not start with ~/ and holds no
\* other token is returned as it is.
C14_UndefinedVariableKept ==
    Expanded =>
        /\ CountIn(expandedPath, EnvUndefined) = CountIn(inputPath, EnvUndefined)
        /\ CountIn(expandedPath, EnvDefined) = 0
        /\ CountIn(expandedPath, "tmp") = CountIn(inputPath, EnvDefined)
        /\ ~startsWithTilde(inputPath) => CountIn(expandedPath, UserHome) = 0
        /\ (/\ ~startsWithTilde(inputPath)
            /\ CountIn(inputPath, UserHome) = 0
            /\ CountIn(inputPath, EnvDefined) = 0)
           => expandedPath = inputPath

\* C14 witness: the undefined variable is kept and the defined one of the same path
\* is expanded
C14_Witness ==
    /\ inputPath = << EnvUndefined, "/", "x", EnvDefined >>
    /\ expandedPath = << EnvUndefined, "/", "x", "/", "tmp" >>

\* no two consecutive separators
NoRedundantSeparator(path) ==
    \A k \in 1..(Len(path) - 1) : ~(path[k] = "/" /\ path[k + 1] = "/")

\* C15 (contract). For every path without consecutive separators, the result has no
\* consecutive separators.
C15_OutputNormalized ==
    (Expanded /\ NoRedundantSeparator(inputPath)) => NoRedundantSeparator(expandedPath)

----------------------------------------------------------------------------
(* Claims on the code action provider and the commands, checked under SpecResolve *)

\* provideCodeActions has just returned
Provided == lastApply.cmd = "provide"

\* the action of command c (and, for the specific command, of id) is among the actions
Returns(actions, c, id) ==
    \E k \in 1..Len(actions) : actions[k].command = c /\ actions[k].replacementId = id

\* C16 (contract). Whenever provideCodeActions returns: the broadcast action is among
\* the actions, once, exactly when the kind filter contains source.applyReplacements;
\* the action of a cached rule with an id is among them exactly when the filter
\* contains source.applyReplacements.<id>; nothing is returned when there is no
\* filter or the filter does not intersect source.applyReplacements; and every
\* specific action returned carries the id of a cached rule, one action per such rule
\* in list order.
C16_ActionsByKindFilter ==
    Provided =>
        LET only == lastApply.only
            actions == lastApply.actions
            cache == lastApply.cache
            wanted(id) == kindContains(only, Append(codeActionKind, id))
            specific == SelectSeq(actions, LAMBDA a : a.command = "applySpecificReplacement")
            exposed == SelectSeq(cache, LAMBDA r : r.id # NoId /\ wanted(r.id))
        IN /\ Returns(actions, "applyReplacements", NoId)
                 <=> kindContains(only, codeActionKind)
           /\ Len(SelectSeq(actions, LAMBDA a : a.command = "applyReplacements")) <= 1
           /\ \A k \in 1..Len(cache) :
                 cache[k].id # NoId =>
                     (Returns(actions, "applySpecificReplacement", cache[k].id)
                          <=> wanted(cache[k].id))
           /\ (only = NoKind \/ ~kindIntersects(only, codeActionKind)) => actions = <<>>
           /\ Len(specific) = Len(exposed)
           /\ \A k \in 1..Len(specific) :
                 /\ specific[k].replacementId = exposed[k].id
                 /\ specific[k].replacementId # NoId
                 /\ specific[k].kind = Append(codeActionKind, exposed[k].id)

\* C16 witness: the filter of one id returned the action of that id alone although
\* the cache also holds a rule without an id
C16_Witness ==
    /\ Provided
    /\ lastApply.only = <<"source", "applyReplacements", "p">>
    /\ Len(lastApply.actions) = 1
    /\ lastApply.actions[1].replacementId = "p"
    /\ \E k \in 1..Len(lastApply.cache) : lastApply.cache[k].id = NoId

\* the command of the code action returned for an id has run
ActionInvoked == lastApply.cmd = "specific" /\ lastApply.via = "codeAction"

\* C17 (contract). Whenever the command of the action returned for a rule's id has
\* run, it resolved that id with the code-action flag set: the id handed to
\* applyReplacements is the rule's, every resolved rule has it, and no selection
\* prompt is open.
C17_ActionResolvesItsId ==
    ActionInvoked =>
        /\ Resolved
        /\ ~prompt.open
        /\ lastApply.id = lastApply.reqId
        /\ lastApply.isCodeAction
        /\ \A k \in 1..Len(lastApply.applicable) :
              lastApply.applicable[k].id = lastApply.reqId

\* the ids of the rules of a list that have one, in list order
IdsOf(rules) ==
    LET bearing == SelectSeq(rules, LAMBDA r : r.id # NoId)
    IN [k \in 1..Len(bearing) |-> bearing[k].id]

\* the specific command was invoked without an id and the user has picked an item
PickedFromPrompt == lastApply.cmd = "specific" /\ ~Truthy(lastApply.reqId) /\ Resolved

\* C18 (contract). In every step: an open selection prompt offers the ids of the
\* cached rules that have one, in list order; once an item is picked the rules of
\* the picked id are resolved as by a direct invocation, whatever their languages
\* and whatever flag the command was invoked with; and cancelling the prompt leaves
\* the document as it is and records no edit.
C18_PromptOverIdRules ==
    [][ /\ prompt'.open => prompt'.items = IdsOf(cachedReplacements')
        /\ PickedFromPrompt' =>
              /\ ~lastApply'.isCodeAction
              /\ lastApply'.id # NoId
              /\ lastApply'.applicable =
                     SelectSeq(lastApply'.cache, LAMBDA r : r.id = lastApply'.id)
        /\ (prompt.open /\ lastApply'.outcome = "cancel") =>
              /\ editor' = editor
              /\ lastApply'.edits = <<>>
      ]_vars

\* C19 (contract). In every step: a command that runs while no editor is active,
\* the broadcast command or the specific command with or without an id, ends there:
\* no prompt is open, no notice is shown, no edit is recorded and the editor state is
\* what it was.
C19_NoEditorNoEffect ==
    [][ (~editor.open /\ lastApply'.cmd \in {"all", "specific"}) =>
            /\ lastApply'.outcome = "noEditor"
            /\ ~prompt'.open
            /\ notice' = "none"
            /\ lastApply'.edits = <<>>
            /\ editor' = editor
      ]_vars

\* C19 witness: the specific command ran without an id and without an editor while
\* the cache holds a rule with an id, and nothing happened
C19_Witness ==
    /\ lastApply.cmd = "specific" /\ lastApply.reqId = NoId
    /\ lastApply.outcome = "noEditor"
    /\ ~editor.open /\ ~prompt.open /\ notice = "none"
    /\ IdsOf(cachedReplacements) # <<>>

\* C20 (contract). Whenever the specific command has run without an id while no
\* cached rule has one, the notice of that case is shown; whenever it has run
\* directly with a (non-empty) id that no cached rule has, a notice is shown as well;
\* in both cases the document is the text it was.
C20_InformationalNotices ==
    /\ lastApply.outcome = "noIds" => notice = "noIds"
    /\ (/\ lastApply.cmd = "specific" /\ lastApply.via = "direct"
        /\ Truthy(lastApply.reqId) /\ Resolved
        /\ \A k \in 1..Len(lastApply.cache) : lastApply.cache[k].id # lastApply.reqId)
       => (notice # "none" /\ editor.text = lastApply.snapshot)

\* the command of a returned action, run on a document of the language, resolves
\* the rule
ResolvedBy(action, rule, languageId) ==
    applicableReplacements(<<rule>>,
        IF action.command = "applyReplacements" THEN NoId ELSE action.replacementId,
        TRUE, languageId) # <<>>

\* the returned actions whose command resolves the rule
Resolving(actions, rule, languageId) ==
    {j \in 1..Len(actions) : ResolvedBy(actions[j], rule, languageId)}

\* C29 (behaviour). Whenever provideCodeActions returns for a request on the open
\* document: no cached rule is resolved by the commands of more than one of the
\* returned actions; in particular, under the filter source.applyReplacements a rule
\* with an id is not resolved both by the broadcast action and by the action of its id.
C29_NoRuleResolvedTwice ==
    (Provided /\ editor.open) =>
        \A k \in 1..Len(lastApply.cache) :
            Cardinality(Resolving(lastApply.actions, lastApply.cache[k],
                                  editor.languageId)) <= 1

----------------------------------------------------------------------------
(* Claims on the applier, checked under SpecApply *)

\* the last command called applyReplacements
Applied == lastApply.outcome \in {"noRules", "edited", "rejected", "threw"}

\* no rule of the list matches anywhere in the text
NoMatch(text, rules) ==
    \A k \in 1..Len(rules) : matchAll(text, RegExpOf(rules[k].search)) = <<>>

\* the call of this step has the rules and the context of the call before it and
\* runs on the text that call left
AppliedAgain ==
    /\ Applied /\ Applied'
    /\ lastApply'.id = lastApply.id
    /\ lastApply'.isCodeAction = lastApply.isCodeAction
    /\ lastApply'.cache = lastApply.cache
    /\ lastApply'.languageId = lastApply.languageId
    /\ lastApply'.snapshot = lastApply.text

\* C21 (contract). In every step: an apply whose applicable rules all compile and
\* match nowhere in the document records no edit, leaves the text as it is and
\* raises no error; and when an apply has left a text none of its rules matches,
\* the next apply with the same rules and context resolves the same rules, records
\* no edit and leaves the editor as it is.
C21_NoMatchNoChange ==
    [][ /\ (/\ Applied'
            /\ ~throws(lastApply'.applicable)
            /\ NoMatch(lastApply'.snapshot, lastApply'.applicable))
           => /\ lastApply'.outcome \in {"noRules", "edited"}
              /\ lastApply'.edits = <<>>
              /\ editor'.text = lastApply'.snapshot
        /\ (/\ AppliedAgain
            /\ ~throws(lastApply.applicable)
            /\ NoMatch(lastApply.text, lastApply.applicable))
           => /\ lastApply'.applicable = lastApply.applicable
              /\ lastApply'.outcome \in {"noRules", "edited"}
              /\ lastApply'.edits = <<>>
              /\ editor' = editor
      ]_vars

\* C21 witness: a text longer than any document opened, which only an apply can
\* have left, was applied to again by a rule that does not match it, and is as it
\* was
C21_Witness ==
    /\ lastApply.outcome = "edited"
    /\ lastApply.applicable # <<>>
    /\ lastApply.edits = <<>>
    /\ Len(lastApply.snapshot) > MaxTextLen
    /\ editor.text = lastApply.snapshot

\* what a global replace of the rule over the whole text does, match by match: the
\* span of every match and the template with the groups of that match substituted
ReplacementsOf(text, r) ==
    LET pat == RegExpOf(r.search)
        starts == matchAll(text, pat)
    IN [k \in 1..Len(starts) |->
          [start |-> starts[k], end |-> starts[k] + Width(pat),
           text |-> Expand(TemplateOf(r.replace), text, pat, starts[k])]]

\* C23 (behaviour). Whenever an apply has recorded its edits: they are, rule by rule
\* in list order and match by match, the span of the match in the snapshot with the
\* text a global replace of the rule over the whole snapshot produces for that match.
C23_EditIsGlobalReplaceOfMatch ==
    (Applied /\ lastApply.outcome \in {"edited", "rejected"}) =>
        lastApply.edits =
            Flatten([k \in 1..Len(lastApply.applicable) |->
                        ReplacementsOf(lastApply.snapshot, lastApply.applicable[k])])

\* the match spans of the two rules in the text do not overlap
SpansApart(text, ruleA, ruleB) ==
    LET spansA == ReplacementsOf(text, ruleA)
        spansB == ReplacementsOf(text, ruleB)
    IN \A i \in 1..Len(spansA), j \in 1..Len(spansB) : ~Overlap(spansA[i], spansB[j])

\* C22 (contract). Whenever an apply has run with two applicable rules A, B that
\* compile and whose match spans in the snapshot do not overlap: the edit is applied
\* and the text is the snapshot with the replacements of A and of B, each what a
\* global replace over the snapshot produces, merged by span; and the same call with
\* the rules declared B, A leaves the same text.
C22_MergedBySpanAnyOrder ==
    (/\ Applied
     /\ Len(lastApply.applicable) = 2
     /\ ~throws(lastApply.applicable)
     /\ SpansApart(lastApply.snapshot, lastApply.applicable[1], lastApply.applicable[2]))
    => LET L == lastApply
           A == L.applicable[1]
           B == L.applicable[2]
       IN /\ L.outcome = "edited"
          /\ editor.text = Build(L.snapshot, ReplacementsOf(L.snapshot, A)
                                             \o ReplacementsOf(L.snapshot, B), 0)
          /\ editor.text = editorEdit(L.snapshot, << B, A >>).text

\* C27 (behaviour). Whenever an apply has run with an applicable rule whose search
\* does not compile: the call ends with the error, no edit is recorded as applied and
\* the text is the snapshot, whatever the valid rules before or after the offending
\* one match.
C27_InvalidPatternAppliesNothing ==
    (Applied /\ throws(lastApply.applicable)) =>
        /\ lastApply.outcome = "threw"
        /\ lastApply.edits = <<>>
        /\ editor.text = lastApply.snapshot

\* C27 witness: a rule that matches the document precedes the rule that does not
\* compile, and the text is as it was
C27_Witness ==
    /\ lastApply.outcome = "threw"
    /\ Len(lastApply.applicable) = 2
    /\ ~SyntaxError(lastApply.applicable[1].search)
    /\ matchAll(lastApply.snapshot, RegExpOf(lastApply.applicable[1].search)) # <<>>
    /\ SyntaxError(lastApply.applicable[2].search)
    /\ editor.text = lastApply.snapshot

\* C28 (behaviour). Whenever an apply has resolved no rule (the cache is empty, the
\* document's language excludes every rule, or no rule has the requested id), it
\* returned before editor.edit: no batch was submitted, not even an empty one, no
\* edit is recorded and the text is the snapshot.
C28_NoRulesNoEdit ==
    (Applied /\ lastApply.applicable = <<>>) =>
        /\ lastApply.outcome = "noRules"
        /\ lastApply.edits = <<>>
        /\ editor.text = lastApply.snapshot

\* C28 witness: the specific command ran directly with an id no cached rule has,
\* on a document a cached rule matches, and returned without an edit
C28_Witness ==
    /\ lastApply.outcome = "noRules"
    /\ lastApply.cmd = "specific" /\ lastApply.id = "p"
    /\ lastApply.cache # <<>>
    /\ matchAll(lastApply.snapshot, RegExpOf(lastApply.cache[1].search)) # <<>>
    /\ editor.text = lastApply.snapshot

----------------------------------------------------------------------------
(* Claims on the cache under concurrent loads, checked under SpecRead *)

\* the load at the head of the queue returns in this step
LoadReturns == tasks # <<>> /\ Head(tasks).pc = "ret" /\ tasks' = Tail(tasks)

\* the load at the head of the queue resumes after its await in this step
LoadResumes ==
    /\ tasks # <<>> /\ Head(tasks).pc = "loop"
    /\ tasks' # tasks /\ Len(tasks') = Len(tasks)

\* the valid rules the declared file holds now
HeldBy(filePath) == ValidRulesOf(FileOf(filePath))

\* C24 (behaviour). In every step: before activation the cache is empty; a load that
\* starts takes the inline rules and the declared files of the configuration and
\* reads its first file; a load that resumes adds what it read to what it has and
\* reads its next file, or returns when it has read them all; the cache changes only
\* in the step in which a load returns, and then to the inline rules that load took
\* followed by all it read from its files; and the broadcast command resolves from
\* the cache as it is in that state, also while a load is in flight.
C24_CacheIsOneCompleteResult ==
    [][ /\ ~activated => cachedReplacements = <<>>
        /\ \A k \in (Len(tasks) + 1)..Len(tasks') :
              LET t == tasks'[k]
              IN /\ t.settings = cfgReplacements' /\ t.rfiles = cfgFiles'
                 /\ t.acc = <<>>
                 /\ IF t.rfiles = <<>> THEN t.pc = "ret"
                    ELSE t.pc = "loop" /\ t.i = 1 /\ t.cur = HeldBy(t.rfiles[1])
        /\ LoadResumes =>
              LET t == Head(tasks)
                  u == tasks'[Len(tasks')]
              IN /\ u.settings = t.settings /\ u.rfiles = t.rfiles
                 /\ u.acc = t.acc \o t.cur
                 /\ IF t.i < Len(t.rfiles)
                    THEN u.pc = "loop" /\ u.i = t.i + 1 /\ u.cur = HeldBy(t.rfiles[t.i + 1])
                    ELSE u.pc = "ret" /\ u.i = Len(t.rfiles)
        /\ cachedReplacements' # cachedReplacements => LoadReturns
        /\ LoadReturns =>
              LET t == Head(tasks)
              IN /\ t.i = Len(t.rfiles)
                 /\ cachedReplacements' = t.settings \o t.acc
        /\ lastApply'.cmd = "all" =>
              /\ lastApply'.cache = cachedReplacements
              /\ lastApply'.applicable =
                     SelectSeq(cachedReplacements,
                               LAMBDA r : languageAllows(r, editor.languageId))
      ]_vars

\* C24 witness: the broadcast command has resolved the complete list of the last
\* load while a later load, in flight, has read the inline rule but not yet returned
\* with the rule of its file
C24_Witness ==
    /\ tasks # <<>>
    /\ tasks[1].pc = "loop" /\ tasks[1].settings = <<RuleP>> /\ tasks[1].cur = <<RuleQ>>
    /\ lastApply.cmd = "all"
    /\ lastApply.cache = <<RuleQ>>
    /\ cachedReplacements = <<RuleQ>>

\* the initial load, started by activate at line 170, has not yet resolved
InitialLoadPending == \E k \in 1..Len(tasks) : tasks[k].origin = "activate"

\* C30 (behaviour). In every step: while the initial load is pending the cache is
\* the empty list, so that whatever id, flag, language or kind filter a command or
\* a code-action request brings, it resolves no rule and enumerates no id action,
\* whatever rules are configured; the initial load starts only at activation, which
\* happens once; no reload is in flight or stores its result while the initial load
\* is pending; and the step in which the initial load resolves assigns its result,
\* the inline rules it read followed by the rules of the files it read, to the cache.
C30_EmptyUntilInitialLoad ==
    [][ /\ InitialLoadPending =>
              /\ cachedReplacements = <<>>
              /\ \A id \in Ids \cup {NoId}, isCodeAction \in BOOLEAN, languageId \in Langs :
                    applicableReplacements(cachedReplacements, id, isCodeAction,
                                           languageId) = <<>>
              /\ \A only \in OnlyKinds :
                    /\ subActions(only) = <<>>
                    /\ \A k \in 1..Len(provideCodeActions(only)) :
                          provideCodeActions(only)[k] = mainAction
              /\ Len(tasks) = 1
        /\ (InitialLoadPending' /\ ~InitialLoadPending) => (~activated /\ activated')
        /\ activated => activated'
        /\ (LoadReturns /\ Head(tasks).origin # "activate") => ~InitialLoadPending
        /\ (InitialLoadPending /\ ~InitialLoadPending') =>
              /\ LoadReturns
              /\ cachedReplacements' = Head(tasks).settings \o Head(tasks).acc
              /\ Head(tasks).settings = cfgReplacements
              /\ Len(Head(tasks).acc) <= Len(cfgFiles) ]_vars

\* C30 witness: the initial load is suspended on its file while a rule with an id is
\* configured inline and the file holds a rule, and the cache is empty
C30_Witness ==
    /\ activated
    /\ Len(tasks) = 1
    /\ tasks[1].origin = "activate" /\ tasks[1].pc = "loop"
    /\ tasks[1].cur = <<RuleQ>>
    /\ cfgReplacements = <<RuleP>>
    /\ cachedReplacements = <<>>

----------------------------------------------------------------------------
(* Claims on overlapping loads, checked under SpecWatch *)

\* C25 (behaviour). In every step in which a load returns: every load still in
\* flight was triggered after it, so that results are stored in the order in which
\* their loads were triggered and the last one stored is that of the load triggered
\* last; the cache becomes the result of the returning load alone, its inline rules
\* followed by what it read; and when it is the last load in flight, it is a load of
\* the configuration as it is.
C25_LaterLoadWins ==
    [][ LoadReturns =>
            LET t == Head(tasks)
            IN /\ \A k \in 2..Len(tasks) : t.n < tasks[k].n
               /\ cachedReplacements' = t.settings \o t.acc
               /\ tasks' = <<>> => (t.settings = cfgReplacements /\ t.rfiles = cfgFiles)
      ]_vars

\* the handler of a configuration change that affects the file list completes in
\* this step
FilesHandlerCompletes ==
    LoadReturns /\ Head(tasks).origin = "config" /\ Head(tasks).affectsFiles

\* no declared file resolves to the path
Undeclared(p) == \A k \in 1..Len(cfgFiles) : resolvePath(cfgFiles[k]) # p

\* C26 (behaviour). In every step: when the handler of a configuration change that
\* affects the declared file list completes, and whenever no such handler is running
\* after activation, the watchers the extension holds are the resolved paths of the
\* declared files, one each in declaration order, and the host's undisposed watchers
\* are those and no other (every watcher of an earlier list is disposed); and the
\* notification of a path that no declared file resolves to, delivered while no
\* configuration handler is running, starts no load and leaves the cache as it is.
C26_WatchersFollowDeclaredFiles ==
    [][ /\ FilesHandlerCompletes =>
              /\ fileWatchers' = watchedPaths(cfgFiles')
              /\ \A p \in ResolvedPaths :
                    hostWatchers'[p] = CountIn(watchedPaths(cfgFiles'), p)
        /\ (activated /\ ~ConfigHandlerRunning) =>
              /\ fileWatchers = watchedPaths(cfgFiles)
              /\ \A p \in ResolvedPaths :
                    hostWatchers[p] = CountIn(watchedPaths(cfgFiles), p)
        /\ \A p \in ResolvedPaths :
              (Notified(p) /\ Undeclared(p) /\ ~ConfigHandlerRunning) =>
                  /\ tasks' = tasks
                  /\ cachedReplacements' = cachedReplacements
      ]_vars

\* C26 witness: the handler of a change to an empty file list has completed while a
\* load a watcher of the former list had started is still in flight, and no watcher
\* is left
C26_Witness ==
    /\ done = "config"
    /\ cfgFiles = <<>>
    /\ Len(tasks) = 1 /\ tasks[1].origin = "watch" /\ tasks[1].rfiles = <<F1>>
    /\ fileWatchers = <<>>
    /\ hostWatchers = EmptyBag

====
